---- MODULE Spec2Model ----
(***************************************************************************)
(* A model of provable-vm: the stack interpreter (vm.rs), the trace        *)
(* commitment, the constraint synthesis of ExecutionCircuit, the program   *)
(* loader and the setup -> prove -> load_vk -> verify pipeline of main.rs. *)
(*                                                                         *)
(* A u32 is kept at its real width as two 16-bit limbs [hi, lo]; TLC's own *)
(* integers are narrower than 2^32.  pc and lengths stay far below 2^31    *)
(* for the programs explored and are plain naturals.                       *)
(***************************************************************************)
EXTENDS Integers, Sequences, FiniteSets, TLC

\* ------------------------------------------------------------------ bounds
MaxProgLen == 2
MaxRuns == 2
MaxTraceLen == 2

\* ------------------------------------------------------------------ u32
LimbMod == 65536

W(h, l) == [hi |-> h, lo |-> l]

Zero == W(0, 0)
One == W(0, 1)
MaxU32 == W(LimbMod - 1, LimbMod - 1)

\* a < b on u32
U32Lt(a, b) == a.hi < b.hi \/ (a.hi = b.hi /\ a.lo < b.lo)

\* a + b: the exact carry out of bit 31 and the 32 low bits of the sum
U32AddCarry(a, b) == (a.hi + b.hi + ((a.lo + b.lo) \div LimbMod)) \div LimbMod

U32AddWrap(a, b) ==
    W((a.hi + b.hi + ((a.lo + b.lo) \div LimbMod)) % LimbMod, (a.lo + b.lo) % LimbMod)

\* a - b modulo 2^32: the operands the other way round
U32SubSwapped(b, a) ==
    LET borrow == IF a.lo < b.lo THEN 1 ELSE 0
    IN  W((a.hi - b.hi - borrow + LimbMod) % LimbMod, (a.lo - b.lo + LimbMod) % LimbMod)

\* b - a modulo 2^32
U32SubWrap(b, a) ==
    LET borrow == IF b.lo < a.lo THEN 1 ELSE 0
    IN  W((b.hi - a.hi - borrow + LimbMod) % LimbMod, (b.lo - a.lo + LimbMod) % LimbMod)

\* ------------------------------------------------------------------ program representation
Opcodes == {"PUSH", "POP", "ADD", "SUB", "JMP", "JZ", "LOAD", "STORE", "HALT"}

None == [some |-> FALSE, val |-> Zero]
Some(v) == [some |-> TRUE, val |-> v]

Instruction(op, opr) == [opcode |-> op, operand |-> opr]

\* ------------------------------------------------------------------ results
Ok == [kind |-> "Ok", msg |-> "", arg |-> Zero]
Err(m) == [kind |-> "Err", msg |-> m, arg |-> Zero]
ErrAt(m, a) == [kind |-> "Err", msg |-> m, arg |-> a]
Panic(m) == [kind |-> "Panic", msg |-> m, arg |-> Zero]

\* ------------------------------------------------------------------ HashMap
\* the hasher keys of vm.heap and of its clones in the trace
VARIABLE hash_seed

\* the least key of a non-empty set of u32
MinKey(S) == CHOOSE a \in S : \A b \in S : a = b \/ U32Lt(a, b)
MaxKey(S) == CHOOSE a \in S : \A b \in S : a = b \/ U32Lt(b, a)

RECURSIVE Ascending(_)
Ascending(S) == IF S = {} THEN <<>> ELSE <<MinKey(S)>> \o Ascending(S \ {MinKey(S)})

RECURSIVE Descending(_)
Descending(S) == IF S = {} THEN <<>> ELSE <<MaxKey(S)>> \o Descending(S \ {MaxKey(S)})

\* The keys RandomState can give a HashMap: the order in which the map is
\* iterated depends on them and on nothing the program controls.
HashSeeds == {0, 1}

\* HashMap iteration order of the keys under the map's hasher keys
HeapIter(heap, seed) == IF seed = 0 THEN Ascending(DOMAIN heap) ELSE Descending(DOMAIN heap)

\* ------------------------------------------------------------------ ProvableVM
EmptyHeap == [a \in {} |-> Zero]

ProvableState(pc, stack, heap, flags) ==
    [pc |-> pc, stack |-> stack, heap |-> heap, flags |-> flags]

\* ProvableVM::new
NewVM == [pc |-> 0, stack |-> <<>>, heap |-> EmptyHeap, flags |-> 0, trace |-> <<>>]

\* a snapshot that leaves the stack out
capture_state_without_stack(m) == ProvableState(m.pc, <<>>, m.heap, m.flags)

capture_state(m) == ProvableState(m.pc, m.stack, m.heap, m.flags)

\* Vec::pop on a non-empty stack
Top(s) == s[Len(s)]
Popped(s) == SubSeq(s, 1, Len(s) - 1)

\* an insert that forgets the other entries
HeapInsertOnly(h, addr, v) == [a \in {addr} |-> v]

\* HashMap::insert
HeapInsert(h, addr, v) ==
    [a \in (DOMAIN h) \cup {addr} |-> IF a = addr THEN v ELSE h[a]]

\* The outcome of one execute_instruction: the VM it leaves and what it returns
\* (Ok(true), Ok(false), Err(msg) or a panic).
Exec(m, r, c) == [vm |-> m, res |-> r, cont |-> c]

\* an instruction that skips its successor
AdvanceByTwo(m, stack, heap) ==
    Exec([m EXCEPT !.stack = stack, !.heap = heap, !.pc = m.pc + 2], Ok, TRUE)

\* an instruction that leaves pc where it is
AdvanceStay(m, stack, heap) ==
    Exec([m EXCEPT !.stack = stack, !.heap = heap], Ok, TRUE)

Advance(m, stack, heap) ==
    Exec([m EXCEPT !.stack = stack, !.heap = heap, !.pc = m.pc + 1], Ok, TRUE)

Fail(m, stack, e) == Exec([m EXCEPT !.stack = stack], e, FALSE)

\* a + b of u32: the build's overflow checks decide between a panic and wrapping
AddU32(m, rest, a, b, checks) ==
    IF U32AddCarry(a, b) = 0 THEN Advance(m, Append(rest, U32AddWrap(a, b)), m.heap)
    ELSE IF checks THEN Fail(m, rest, Panic("attempt to add with overflow"))
    ELSE Advance(m, Append(rest, U32AddWrap(a, b)), m.heap)

\* LOAD that takes the entry the map iterates first instead of the entry at addr
ExecLoadFirstEntry(m, ins) ==
    IF ~ins.operand.some THEN Fail(m, m.stack, Err("LOAD requires an address operand"))
    ELSE IF ins.operand.val \notin DOMAIN m.heap
         THEN Fail(m, m.stack, ErrAt("LOAD failed: address not found", ins.operand.val))
    ELSE Advance(m, Append(m.stack, m.heap[HeapIter(m.heap, hash_seed)[1]]), m.heap)

\* the LOAD arm
ExecLoad(m, ins) ==
    IF ~ins.operand.some THEN Fail(m, m.stack, Err("LOAD requires an address operand"))
    ELSE IF ins.operand.val \notin DOMAIN m.heap
         THEN Fail(m, m.stack, ErrAt("LOAD failed: address not found", ins.operand.val))
    ELSE Advance(m, Append(m.stack, m.heap[ins.operand.val]), m.heap)

execute_instruction(m, ins, checks) ==
    LET s == m.stack
        n == Len(s)
    IN  CASE ins.opcode = "PUSH" ->
               IF ins.operand.some THEN Advance(m, Append(s, ins.operand.val), m.heap)
               ELSE Fail(m, s, Err("PUSH requires an operand"))
          [] ins.opcode = "POP" ->
               IF n = 0 THEN Fail(m, s, Err("POP requires at least one element on the stack"))
               ELSE Advance(m, Popped(s), m.heap)
          [] ins.opcode = "ADD" ->
               IF n = 0 THEN Fail(m, s, Err("ADD requires two elements on the stack"))
               ELSE IF n = 1 THEN Fail(m, Popped(s), Err("ADD requires two elements on the stack"))
               ELSE AddU32(m, Popped(Popped(s)), Top(s), Top(Popped(s)), checks)
          [] ins.opcode = "SUB" ->
               IF n = 0 THEN Fail(m, s, Err("SUB requires two elements on the stack"))
               ELSE IF n = 1 THEN Fail(m, Popped(s), Err("SUB requires two elements on the stack"))
               ELSE LET a == Top(s)
                        b == Top(Popped(s))
                        rest == Popped(Popped(s))
                    IN  IF U32Lt(b, a) THEN Fail(m, rest, Err("SUB resulted in an underflow"))
                        ELSE Advance(m, Append(rest, U32SubWrap(b, a)), m.heap)
          [] ins.opcode = "LOAD" -> ExecLoad(m, ins)
          [] ins.opcode = "STORE" ->
               IF ~ins.operand.some THEN Fail(m, s, Err("STORE requires an address operand"))
               ELSE IF n = 0 THEN Fail(m, s, Err("STORE requires a value on the stack"))
               ELSE Advance(m, Popped(s), HeapInsert(m.heap, ins.operand.val, Top(s)))
          [] ins.opcode = "HALT" -> Exec(m, Ok, FALSE)
          [] OTHER -> Fail(m, s, Err("Unsupported opcode: " \o ins.opcode))

\* ------------------------------------------------------------------ trace commitment
\* n as k little-endian bytes (bincode's fixed-width integers)
RECURSIVE LEBytes(_, _)
LEBytes(n, k) == IF k = 0 THEN <<>> ELSE <<n % 256>> \o LEBytes(n \div 256, k - 1)

SerU32(w) == LEBytes(w.lo, 2) \o LEBytes(w.hi, 2)

RECURSIVE SerStack(_)
SerStack(s) == IF s = <<>> THEN <<>> ELSE SerU32(Head(s)) \o SerStack(Tail(s))

RECURSIVE SerEntries(_, _)
SerEntries(heap, keys) ==
    IF keys = <<>> THEN <<>>
    ELSE SerU32(Head(keys)) \o SerU32(heap[Head(keys)]) \o SerEntries(heap, Tail(keys))

\* bincode::serialize(&ProvableState): pc, stack, heap, flags in declaration order,
\* each collection behind its u64 length
Serialize(st, seed) ==
    LEBytes(st.pc, 4)
        \o LEBytes(Len(st.stack), 8) \o SerStack(st.stack)
        \o LEBytes(Cardinality(DOMAIN st.heap), 8) \o SerEntries(st.heap, HeapIter(st.heap, seed))
        \o LEBytes(st.flags, 1)

\* a commitment that hashes the last snapshot only
HashedInputLastOnly(trace, seed) ==
    IF trace = <<>> THEN <<>> ELSE Serialize(trace[Len(trace)], seed)

\* everything hasher.update received, in order
RECURSIVE HashedInput(_, _)
HashedInput(trace, seed) ==
    IF trace = <<>> THEN <<>>
    ELSE Serialize(Head(trace), seed) \o HashedInput(Tail(trace), seed)

\* Sha256 finalize: collision-free, so a digest stands for the input it was made of
Sha256(bytes) == [sha256 |-> bytes]

\* generate_trace_commitment: the digest it returns (and writes, hex encoded)
generate_trace_commitment(trace, seed) == Sha256(HashedInput(trace, seed))

NoFile == [exists |-> FALSE, content |-> Sha256(<<>>)]
HexLine(digest) == [exists |-> TRUE, content |-> digest]

\* ------------------------------------------------------------------ field elements
\* An element of Fr that is c * 2^32 + w for a small c: every value the circuit
\* computes from u32 operands has this form, and distinct forms are distinct in Fr.
Fr(c, w) == [c |-> c, w |-> w]

\* Fr::from(u32)
FrFromU32(w) == Fr(0, w)

\* x + y and y - x in Fr, for x and y that come from a u32
FrAdd(x, y) == Fr(U32AddCarry(x.w, y.w), U32AddWrap(x.w, y.w))
FrSub(y, x) == Fr(IF U32Lt(y.w, x.w) THEN -1 ELSE 0, U32SubWrap(y.w, x.w))

\* Fr::from_le_bytes_mod_order of a digest
convert_commitment_to_field(commitment) == [le_bytes_mod_order |-> commitment]

\* ------------------------------------------------------------------ ExecutionCircuit
ExecutionCircuit(init, final, program, commitment) ==
    [initial_state |-> init, final_state |-> final, program |-> program,
     trace_commitment |-> commitment]

\* enforce_constraint(a, b, c) with b = 1: the values of a and of c under the assignment
Constraint(tag, lhs, rhs) == [tag |-> tag, lhs |-> lhs, rhs |-> rhs]

\* The synthesizer's working state: simulated stack, heap and pc, the constraints
\* added so far, the values of the input variables and the number of witnesses allocated, whether the loop has left (break), and
\* Ok or the panic that ended it.
Synth(stack, heap, pc, cons, ins, nw, out, brk) ==
    [stack |-> stack, heap |-> heap, pc |-> pc, constraints |-> cons,
     inputs |-> ins, witnesses |-> nw, outcome |-> out, halted |-> brk]

SynthPanic(y, m) == [y EXCEPT !.outcome = Panic(m)]

\* one iteration of the for loop over the program
SynthStep(y, ins, checks) ==
    LET s == y.stack
        n == Len(s)
        next(stack, heap, cons, k) ==
            Synth(stack, heap, y.pc + 1, y.constraints \o cons, y.inputs, y.witnesses + k, Ok, FALSE)
    IN  CASE ins.opcode = "PUSH" ->
               IF ins.operand.some
               THEN next(Append(s, ins.operand.val), y.heap,
                         <<Constraint("PUSH", FrFromU32(ins.operand.val), FrFromU32(ins.operand.val))>>, 1)
               ELSE SynthPanic(y, "PUSH operation requires an operand but none was provided.")
          [] ins.opcode = "POP" ->
               IF n = 0 THEN SynthPanic(y, "POP operation requires at least one element on the stack.")
               ELSE next(Popped(s), y.heap, <<>>, 0)
          [] ins.opcode = "ADD" ->
               IF n < 2 THEN SynthPanic(y, "ADD operation requires at least two elements on the stack.")
               ELSE LET a == Top(s)
                        b == Top(Popped(s))
                        result == U32AddWrap(a, b)
                    IN  IF U32AddCarry(a, b) # 0 /\ checks
                        THEN SynthPanic(y, "attempt to add with overflow")
                        ELSE next(Append(Popped(Popped(s)), result), y.heap,
                                  <<Constraint("ADD", FrAdd(FrFromU32(a), FrFromU32(b)), FrFromU32(result))>>, 3)
          [] ins.opcode = "SUB" ->
               IF n < 2 THEN SynthPanic(y, "SUB operation requires at least two elements on the stack.")
               ELSE LET a == Top(s)
                        b == Top(Popped(s))
                        result == U32SubWrap(b, a)
                    IN  IF U32Lt(b, a) /\ checks
                        THEN SynthPanic(y, "attempt to subtract with overflow")
                        ELSE next(Append(Popped(Popped(s)), result), y.heap,
                                  <<Constraint("SUB", FrSub(FrFromU32(b), FrFromU32(a)), FrFromU32(result))>>, 3)
          [] ins.opcode = "STORE" ->
               IF ~ins.operand.some THEN SynthPanic(y, "STORE operation requires an address operand.")
               ELSE IF n = 0 THEN SynthPanic(y, "STORE operation requires a value on the stack.")
               ELSE next(Popped(s), HeapInsert(y.heap, ins.operand.val, Top(s)),
                         <<Constraint("STORE address", FrFromU32(ins.operand.val), FrFromU32(ins.operand.val)),
                           Constraint("STORE value", FrFromU32(Top(s)), FrFromU32(Top(s)))>>, 2)
          [] ins.opcode = "LOAD" ->
               IF ~ins.operand.some THEN SynthPanic(y, "LOAD operation requires an address operand.")
               ELSE IF ins.operand.val \notin DOMAIN y.heap
                    THEN SynthPanic(y, "LOAD operation requires a valid address in the heap.")
               ELSE LET value == y.heap[ins.operand.val]
                    IN  next(Append(s, value), y.heap,
                             <<Constraint("LOAD address", FrFromU32(ins.operand.val), FrFromU32(ins.operand.val)),
                               Constraint("LOAD value", FrFromU32(value), FrFromU32(value))>>, 2)
          [] ins.opcode = "HALT" ->
               [y EXCEPT !.constraints = Append(@, Constraint("HALT", Fr(0, One), Fr(0, One))),
                         !.halted = TRUE]
          [] OTHER -> SynthPanic(y, "Unsupported or invalid opcode encountered.")

\* a for loop that HALT does not leave
RECURSIVE ReplayPastHalt(_, _, _, _)
ReplayPastHalt(program, i, y, checks) ==
    IF i > Len(program) \/ y.outcome.kind # "Ok" THEN y
    ELSE ReplayPastHalt(program, i + 1, SynthStep(y, program[i], checks), checks)

\* the for loop: from instruction i on, until the program ends, HALT breaks or a panic
RECURSIVE Replay(_, _, _, _)
Replay(program, i, y, checks) ==
    IF i > Len(program) \/ y.halted \/ y.outcome.kind # "Ok" THEN y
    ELSE Replay(program, i + 1, SynthStep(y, program[i], checks), checks)

\* a final check that compares with the top of final_state's stack
FinalCheckTop(y, final_state) ==
    IF y.outcome.kind # "Ok" \/ y.stack = <<>> THEN y
    ELSE IF final_state.stack = <<>> THEN SynthPanic(y, "index out of bounds")
    ELSE [y EXCEPT !.constraints =
                       Append(@, Constraint("final", FrFromU32(y.stack[1]), FrFromU32(Top(final_state.stack)))),
                   !.witnesses = @ + 2]

\* the final stack consistency check
FinalCheck(y, final_state) ==
    IF y.outcome.kind # "Ok" \/ y.stack = <<>> THEN y
    ELSE IF final_state.stack = <<>> THEN SynthPanic(y, "index out of bounds")
    ELSE [y EXCEPT !.constraints =
                       Append(@, Constraint("final", FrFromU32(y.stack[1]), FrFromU32(final_state.stack[1]))),
                   !.witnesses = @ + 2]

\* a synthesis that adds the public input's constraint after the final check
generate_constraints_input_last(circuit, checks) ==
    LET f == convert_commitment_to_field(circuit.trace_commitment)
        start == Synth(circuit.initial_state.stack, circuit.initial_state.heap,
                       circuit.initial_state.pc, <<>>, <<f>>, 0, Ok, FALSE)
        y == FinalCheck(Replay(circuit.program, 1, start, checks), circuit.final_state)
    IN  [y EXCEPT !.constraints = Append(@, Constraint("public input", f, f))]

\* ExecutionCircuit::generate_constraints: the public input and its constraint,
\* the replay of the program from initial_state, the final check
generate_constraints(circuit, checks) ==
    LET f == convert_commitment_to_field(circuit.trace_commitment)
        start == Synth(circuit.initial_state.stack, circuit.initial_state.heap,
                       circuit.initial_state.pc, <<Constraint("public input", f, f)>>, <<f>>, 0, Ok, FALSE)
    IN  FinalCheck(Replay(circuit.program, 1, start, checks), circuit.final_state)

\* ConstraintSystem::is_satisfied
is_satisfied(y) == \A k \in 1..Len(y.constraints) : y.constraints[k].lhs = y.constraints[k].rhs

\* ------------------------------------------------------------------ the proving backend
\* Groth16 as the pipeline sees it.  A key pair is known by the randomness of the
\* setup that made it; a proof by the key and the public inputs it was made for
\* and by whether its witness satisfied the constraints.
\* gamma_abc_g1 has one element for the constant and one for each input variable
VerifyingKey(id, ninputs) == [id |-> id, gamma_abc_g1 |-> 1 + ninputs]

ProvingKey(id, y) ==
    [vk |-> VerifyingKey(id, Len(y.inputs)), constraints |-> Len(y.constraints)]

Proof(key, inputs, sound) == [key |-> key, inputs |-> inputs, sound |-> sound]

\* Groth16::setup(circuit, rng)
Groth16Setup(circuit, rng, checks) ==
    LET y == generate_constraints(circuit, checks)
    IN  [res |-> y.outcome, pk |-> ProvingKey(rng, y), cs |-> y]

\* Groth16::prove(pk, circuit, rng): only a build with debug assertions checks
\* that the constraints are satisfied; without them the proof is made all the same
Groth16Prove(pk, circuit, checks) ==
    LET y == generate_constraints(circuit, checks)
        sat == is_satisfied(y) /\ Len(y.constraints) = pk.constraints
    IN  [res |-> IF y.outcome.kind # "Ok" THEN y.outcome
                 ELSE IF checks /\ ~sat THEN Panic("assertion failed: cs.is_satisfied()")
                 ELSE Ok,
         proof |-> Proof(pk.vk.id, y.inputs, sat), cs |-> y]

\* Groth16::verify(vk, public_input, proof): Err on a public input vector of the
\* wrong length, otherwise Ok(accepted)
Groth16Verify(vk, public_input, proof) ==
    IF Len(public_input) + 1 # vk.gamma_abc_g1
    THEN [res |-> Err("MalformedVerifyingKey"), accepted |-> FALSE]
    ELSE [res |-> Ok,
          accepted |-> proof.sound /\ proof.key = vk.id /\ proof.inputs = public_input]

\* ------------------------------------------------------------------ artifacts
NoProof == Proof(0, <<>>, FALSE)
NoSynth == Synth(<<>>, EmptyHeap, 0, <<>>, <<>>, 0, Ok, FALSE)

\* program.proof: absent, bytes that do not deserialize, or a serialized proof
ProofFile(state, proof) == [state |-> state, proof |-> proof]

\* program.vk likewise
VkFile(state, key) == [state |-> state, vk |-> key]

\* ------------------------------------------------------------------ zk_proof.rs, utils.rs
verify_proof(vk, proof_file, public_input) ==
    IF proof_file.state = "proof"
    THEN Groth16Verify(vk, public_input, proof_file.proof).res.kind = "Ok"
    ELSE FALSE

\* load_vk: what it returns and the file it leaves
load_vk(vk_file, pk) ==
    IF vk_file.state # "absent"
    THEN [res |-> IF vk_file.state = "key" THEN Ok ELSE Err("InvalidData"),
          vk |-> vk_file.vk, file |-> vk_file]
    ELSE [res |-> Ok, vk |-> pk.vk, file |-> VkFile("key", pk.vk)]

\* a generate_proof that serializes the trace with a hasher of its own
generate_proof_own_hasher(m, seed, program, pk, checks) ==
    LET trace_commitment == generate_trace_commitment(m.trace, 1 - seed)
    IN  IF m.trace = <<>>
        THEN [res |-> Err("Trace is empty, no initial state"), commitment |-> trace_commitment,
              file |-> ProofFile("absent", NoProof), synthesized |-> FALSE, cs |-> NoSynth]
        ELSE LET circuit == ExecutionCircuit(m.trace[1], m.trace[Len(m.trace)], program,
                                             trace_commitment)
                 p == Groth16Prove(pk, circuit, checks)
             IN  [res |-> p.res, commitment |-> trace_commitment,
                  file |-> ProofFile("proof", p.proof), synthesized |-> TRUE, cs |-> p.cs]

\* generate_proof: the commitment is recomputed from the VM's trace
generate_proof(m, seed, program, pk, checks) ==
    LET trace_commitment == generate_trace_commitment(m.trace, seed)
    IN  IF m.trace = <<>>
        THEN [res |-> Err("Trace is empty, no initial state"), commitment |-> trace_commitment,
              file |-> ProofFile("absent", NoProof), synthesized |-> FALSE, cs |-> NoSynth]
        ELSE LET circuit == ExecutionCircuit(m.trace[1], m.trace[Len(m.trace)], program,
                                             trace_commitment)
                 p == Groth16Prove(pk, circuit, checks)
             IN  [res |-> p.res, commitment |-> trace_commitment,
                  file |-> ProofFile("proof", p.proof), synthesized |-> TRUE, cs |-> p.cs]

\* ------------------------------------------------------------------ program_loader.rs
\* A line of program.prov: its first token, and its second token if any, which is
\* the decimal text of a u32 or something parse::<u32> refuses.
Line(op, arg, val) == [op |-> op, arg |-> arg, val |-> val]

LineOf(ins) == Line(ins.opcode, IF ins.operand.some THEN "u32" ELSE "none", ins.operand.val)

ProgramFile(exists, lines) == [exists |-> exists, lines |-> lines]

FileOf(program) == ProgramFile(TRUE, [i \in 1..Len(program) |-> LineOf(program[i])])

RECURSIVE ParseLines(_, _)
ParseLines(lines, acc) ==
    IF lines = <<>> THEN [res |-> Ok, program |-> acc]
    ELSE LET l == Head(lines)
         IN  IF l.op \in {"#", ""} THEN ParseLines(Tail(lines), acc)
             ELSE IF l.op \notin Opcodes
                  THEN [res |-> Err("Unknown opcode: " \o l.op), program |-> <<>>]
             ELSE IF l.arg = "bad"
                  THEN [res |-> Err("invalid digit found in string"), program |-> <<>>]
             ELSE ParseLines(Tail(lines),
                             Append(acc, Instruction(l.op, IF l.arg = "u32" THEN Some(l.val) ELSE None)))

load_program(file) ==
    IF ~file.exists THEN [res |-> Err("No such file or directory"), program |-> <<>>]
    ELSE ParseLines(file.lines, <<>>)

\* ------------------------------------------------------------------ the programs explored
Push(v) == Instruction("PUSH", Some(v))
Load(a) == Instruction("LOAD", Some(a))
Store(a) == Instruction("STORE", Some(a))
Op(op) == Instruction(op, None)

\* every opcode, with and without the operand it needs
Alphabet ==
    {Push(One), Push(MaxU32), Op("PUSH"), Op("POP"), Op("ADD"), Op("SUB"), Op("JMP"), Op("JZ"),
     Load(Zero), Op("LOAD"), Store(Zero), Store(One), Op("STORE"), Op("HALT")}

BoundedPrograms == UNION {[1..n -> Alphabet] : n \in 0..MaxProgLen}

\* longer programs: the scenarios of the specification, arithmetic at the edge of
\* u32, a heap of two entries
ScenarioA == <<Push(W(0, 5)), Push(W(0, 3)), Op("ADD"), Op("HALT")>>
ScenarioB == <<Push(W(0, 2)), Op("POP"), Op("HALT")>>
ScenarioC == <<Load(W(0, 7))>>

ScenarioPrograms ==
    {ScenarioA, ScenarioB, ScenarioC,
     <<Push(MaxU32), Push(One), Op("ADD"), Op("HALT")>>,
     <<Push(One), Push(MaxU32), Op("SUB")>>,
     <<Push(MaxU32), Push(One), Op("SUB"), Op("HALT"), Op("JMP")>>,
     <<Push(One), Push(MaxU32), Store(Zero), Store(One), Load(Zero)>>,
     <<Push(One), Store(One), Load(One), Load(Zero)>>}

Programs == BoundedPrograms \cup ScenarioPrograms

\* program.prov: a file for each program, and files the loader skips lines of or refuses
ProgramFiles ==
    {FileOf(p) : p \in Programs}
        \cup {ProgramFile(FALSE, <<>>),
              ProgramFile(TRUE, <<Line("#", "none", Zero), LineOf(Push(One)), Line("", "none", Zero),
                                  Line("ADD", "u32", One)>>),
              ProgramFile(TRUE, <<LineOf(Push(One)), Line("FOO", "bad", Zero)>>),
              ProgramFile(TRUE, <<Line("PUSH", "bad", Zero), Line("FOO", "none", Zero)>>)}

\* ------------------------------------------------------------------ state
VARIABLES
    debug_build,    \* the build profile: overflow checks and debug assertions on
    program_file,   \* program.prov
    trace_file,     \* program.trace
    proof_file,     \* program.proof
    vk_file,        \* program.vk
    mainpc,         \* where main is
    program,        \* the loaded program
    vm,             \* the ProvableVM
    run_result,     \* what run_program returned
    circuit,        \* main's ExecutionCircuit
    cs,             \* the constraint system of the latest synthesis
    pk,             \* the proving key of setup
    vk,             \* the verifying key load_vk returned
    public_inputs,  \* the public input vector given to verify_proof
    valid,          \* what verify_proof returned
    output,         \* the last message of the process
    log,            \* the cryptographic steps of this process, in order
    runs,           \* how many times the pipeline has been started
    prev,           \* trace, result and commitment of the previous process
    tampered,       \* what was done to program.proof behind the program's back
    twin,           \* a second trace with its own hasher, and its commitment
    executed        \* how many instructions this run_program has executed, HALT included

files == <<program_file, trace_file, proof_file, vk_file>>
vars == <<debug_build, program_file, trace_file, proof_file, vk_file, mainpc, program, vm,
          hash_seed, run_result, circuit, cs, pk, vk, public_inputs, valid, output, log,
          runs, prev, tampered, twin, executed>>

\* ------------------------------------------------------------------ initial values
NotRun == [kind |-> "none", msg |-> "", arg |-> Zero]
NoState == ProvableState(0, <<>>, EmptyHeap, 0)
NoCircuit == ExecutionCircuit(NoState, NoState, <<>>, Sha256(<<>>))
NoVk == VerifyingKey(0, 0)
NoPk == [vk |-> NoVk, constraints |-> 0]
NoPrev == [exists |-> FALSE, trace |-> <<>>, run_result |-> NotRun, trace_file |-> NoFile]
NoTwin == [trace |-> <<>>, seed |-> 0, changed |-> "", committed |-> FALSE, digest |-> Sha256(<<>>)]

\* a process at the start of main, line 23: a new VM with a new hasher
ProcessStart ==
    /\ mainpc' = "load"
    /\ program' = <<>>
    /\ vm' = NewVM
    /\ hash_seed' \in HashSeeds
    /\ run_result' = NotRun
    /\ circuit' = NoCircuit
    /\ cs' = NoSynth
    /\ pk' = NoPk
    /\ vk' = NoVk
    /\ public_inputs' = <<>>
    /\ valid' = FALSE
    /\ output' = ""
    /\ log' = <<>>
    /\ tampered' = "no"
    /\ executed' = 0

Init ==
    /\ debug_build \in BOOLEAN
    /\ program_file \in ProgramFiles
    /\ trace_file = NoFile
    /\ proof_file = ProofFile("absent", NoProof)
    /\ vk_file = VkFile("absent", NoVk)
    /\ mainpc = "load"
    /\ program = <<>>
    /\ vm = NewVM
    /\ hash_seed \in HashSeeds
    /\ run_result = NotRun
    /\ circuit = NoCircuit
    /\ cs = NoSynth
    /\ pk = NoPk
    /\ vk = NoVk
    /\ public_inputs = <<>>
    /\ valid = FALSE
    /\ output = ""
    /\ log = <<>>
    /\ runs = 1
    /\ prev = NoPrev
    /\ tampered = "no"
    /\ twin = NoTwin
    /\ executed = 0

\* ------------------------------------------------------------------ main.rs
\* main line 24: load_program(..).expect(..)
LoadProgram ==
    /\ mainpc = "load"
    /\ LET r == load_program(program_file)
       IN  /\ program' = r.program
           /\ mainpc' = IF r.res.kind = "Ok" THEN "run" ELSE "aborted"
           /\ output' = IF r.res.kind = "Ok" THEN output ELSE "Failed to load program"
    /\ UNCHANGED <<twin, executed, debug_build, files, vm, hash_seed, run_result, circuit, cs, pk, vk,
                   public_inputs, valid, log, runs, prev, tampered>>

\* run_program that forgets the snapshot after the loop
FinishWithoutSnapshot(m) ==
    /\ vm' = m
    /\ trace_file' = HexLine(generate_trace_commitment(m.trace, hash_seed))
    /\ log' = Append(log, "generate_trace_commitment")
    /\ run_result' = Ok
    /\ mainpc' = "circuit"
    /\ output' = output

\* run_program once its loop is left: the final snapshot and the commitment
Finish(m) ==
    LET done == [m EXCEPT !.trace = Append(@, capture_state(m))]
    IN  /\ vm' = done
        /\ trace_file' = HexLine(generate_trace_commitment(done.trace, hash_seed))
        /\ log' = Append(log, "generate_trace_commitment")
        /\ run_result' = Ok
        /\ mainpc' = "circuit"
        /\ output' = output

\* run_program that commits to the trace before it looks at the error
AbortAfterCommitment(m, res) ==
    /\ vm' = m
    /\ run_result' = res
    /\ mainpc' = "aborted"
    /\ output' = IF res.kind = "Err" THEN "Failed to execute program" ELSE res.msg
    /\ trace_file' = HexLine(generate_trace_commitment(m.trace, hash_seed))
    /\ log' = Append(log, "generate_trace_commitment")

\* run_program returning an error to main's expect, or panicking
Abort(m, res) ==
    /\ vm' = m
    /\ run_result' = res
    /\ mainpc' = "aborted"
    /\ output' = IF res.kind = "Err" THEN "Failed to execute program" ELSE res.msg
    /\ UNCHANGED <<trace_file, log>>

\* one iteration of run_program's loop: snapshot, then execute program[pc]
RunStep ==
    /\ mainpc = "run"
    /\ vm.pc < Len(program)
    /\ LET snap == [vm EXCEPT !.trace = Append(@, capture_state(vm))]
           e == execute_instruction(snap, program[vm.pc + 1], debug_build)
       IN  /\ IF e.res.kind # "Ok" THEN Abort(e.vm, e.res)
              ELSE IF e.cont
                   THEN /\ vm' = e.vm
                        /\ UNCHANGED <<trace_file, log, run_result, mainpc, output>>
              ELSE Finish(e.vm)
           /\ executed' = IF e.res.kind = "Ok" THEN executed + 1 ELSE executed
    /\ UNCHANGED <<twin, debug_build, program_file, proof_file, vk_file, program, hash_seed, circuit,
                   cs, pk, vk, public_inputs, valid, runs, prev, tampered>>

\* program.get(pc) is None: the loop ends past the last instruction
RunExit ==
    /\ mainpc = "run"
    /\ vm.pc >= Len(program)
    /\ Finish(vm)
    /\ UNCHANGED <<twin, executed, debug_build, program_file, proof_file, vk_file, program, hash_seed, circuit,
                   cs, pk, vk, public_inputs, valid, runs, prev, tampered>>

\* main lines 30-35
CreateCircuit ==
    /\ mainpc = "circuit"
    /\ LET c == generate_trace_commitment(vm.trace, hash_seed)
       IN  /\ circuit' = ExecutionCircuit(vm.trace[1], vm.trace[Len(vm.trace)], program, c)
           /\ trace_file' = HexLine(c)
    /\ log' = Append(log, "generate_trace_commitment")
    /\ mainpc' = "setup"
    /\ UNCHANGED <<twin, executed, debug_build, program_file, proof_file, vk_file, program, vm, hash_seed,
                   run_result, cs, pk, vk, public_inputs, valid, output, runs, prev, tampered>>

\* main lines 38-39: a fresh rng, setup(circuit.clone(), rng).unwrap()
Setup ==
    /\ mainpc = "setup"
    /\ LET r == Groth16Setup(circuit, runs, debug_build)
       IN  /\ cs' = r.cs
           /\ pk' = IF r.res.kind = "Ok" THEN r.pk ELSE pk
           /\ mainpc' = IF r.res.kind = "Ok" THEN "prove" ELSE "aborted"
           /\ output' = IF r.res.kind = "Ok" THEN output ELSE r.res.msg
    /\ log' = Append(log, "setup")
    /\ UNCHANGED <<twin, executed, debug_build, files, program, vm, hash_seed, run_result, circuit, vk,
                   public_inputs, valid, runs, prev, tampered>>

\* main line 42: vm.generate_proof(..).expect(..)
Prove ==
    /\ mainpc = "prove"
    /\ LET g == generate_proof(vm, hash_seed, program, pk, debug_build)
       IN  /\ trace_file' = HexLine(g.commitment)
           /\ cs' = IF g.synthesized THEN g.cs ELSE cs
           /\ proof_file' = IF g.res.kind = "Ok" THEN g.file ELSE proof_file
           /\ mainpc' = IF g.res.kind = "Ok" THEN "load_vk" ELSE "aborted"
           /\ output' = CASE g.res.kind = "Ok" -> output
                          [] g.res.kind = "Err" -> "Failed to generate proof"
                          [] OTHER -> g.res.msg
           /\ log' = log \o (IF g.synthesized THEN <<"generate_trace_commitment", "prove">>
                             ELSE <<"generate_trace_commitment">>)
    /\ UNCHANGED <<twin, executed, debug_build, program_file, vk_file, program, vm, hash_seed, run_result,
                   circuit, pk, vk, public_inputs, valid, runs, prev, tampered>>

\* main line 45: load_vk(..).expect(..)
LoadVk ==
    /\ mainpc = "load_vk"
    /\ LET r == load_vk(vk_file, pk)
       IN  /\ vk' = r.vk
           /\ vk_file' = r.file
           /\ mainpc' = IF r.res.kind = "Ok" THEN "verify" ELSE "aborted"
           /\ output' = IF r.res.kind = "Ok" THEN output ELSE "Failed to load verifying key"
    /\ UNCHANGED <<twin, executed, debug_build, program_file, trace_file, proof_file, program, vm, hash_seed,
                   run_result, circuit, cs, pk, public_inputs, valid, log, runs, prev, tampered>>

\* main lines 48-50
PublicInputs(c) == <<convert_commitment_to_field(c.trace_commitment)>>

\* main lines 53-59
Verify ==
    /\ mainpc = "verify"
    /\ public_inputs' = PublicInputs(circuit)
    /\ valid' = verify_proof(vk, proof_file, PublicInputs(circuit))
    /\ output' = IF verify_proof(vk, proof_file, PublicInputs(circuit))
                 THEN "Proof is valid!" ELSE "Proof is invalid."
    /\ log' = Append(log, "verify")
    /\ mainpc' = "done"
    /\ UNCHANGED <<twin, executed, debug_build, files, program, vm, hash_seed, run_result, circuit, cs, pk, vk,
                   runs, prev, tampered>>

\* ------------------------------------------------------------------ the environment
\* What one flipped bit makes of a serialized proof: bytes that no longer
\* deserialize, or the encoding of another proof (the sign flag of a compressed
\* point), which no key accepts.
BitFlips(f) == {ProofFile("garbage", f.proof), ProofFile("proof", [f.proof EXCEPT !.sound = FALSE])}

\* program.proof is removed, overwritten or has one bit flipped before verify_proof reads it
Tamper ==
    /\ mainpc = "verify"
    /\ tampered = "no"
    /\ \E how \in {"removed", "overwritten", "bit flipped"} :
          /\ tampered' = how
          /\ proof_file' \in CASE how = "removed" -> {ProofFile("absent", NoProof)}
                               [] how = "overwritten" -> {ProofFile("garbage", NoProof)}
                               [] OTHER -> BitFlips(proof_file)
    /\ UNCHANGED <<twin, executed, debug_build, program_file, trace_file, vk_file, mainpc, program, vm, hash_seed,
                   run_result, circuit, cs, pk, vk, public_inputs, valid, output, log, runs, prev>>

\* the pipeline is started again on the same program.prov; the files stay
Restart ==
    /\ mainpc \in {"done", "aborted"}
    /\ runs < MaxRuns
    /\ runs' = runs + 1
    /\ prev' = [exists |-> TRUE, trace |-> vm.trace, run_result |-> run_result,
                trace_file |-> trace_file]
    /\ ProcessStart
    /\ UNCHANGED <<twin, debug_build, files>>

Next ==
    \/ LoadProgram
    \/ RunStep
    \/ RunExit
    \/ CreateCircuit
    \/ Setup
    \/ Prove
    \/ LoadVk
    \/ Verify
    \/ Tamper
    \/ Restart

Spec == Init /\ [][Next]_vars

\* ------------------------------------------------------------------ run_program on its own
\* load_program and run_program of one process.  run_program is sequential code:
\* while its loop has an iteration to make, or the loop is left, it goes on.
RunProgram == RunStep \/ RunExit

NextRun == LoadProgram \/ RunStep \/ RunExit

SpecRun == Init /\ [][NextRun]_vars /\ WF_vars(RunProgram)

\* ------------------------------------------------------------------ verify_proof on its own
\* verify_proof is public: a verifier holds some verifying key, finds some
\* program.proof and checks it against the public inputs of its choice.
FieldA == convert_commitment_to_field(generate_trace_commitment(<<NoState>>, 0))
FieldB == convert_commitment_to_field(generate_trace_commitment(<<NoState, NoState>>, 0))

VerifierKeys == {VerifyingKey(1, 1), VerifyingKey(2, 1)}

VerifierProofFiles ==
    {ProofFile("absent", NoProof), ProofFile("garbage", NoProof)}
        \cup {ProofFile("proof", Proof(k, i, b)) :
                 k \in {1, 2}, i \in {<<FieldA>>, <<FieldB>>}, b \in BOOLEAN}

VerifierInputs == {<<>>, <<FieldA>>, <<FieldB>>, <<FieldA, FieldB>>}

InitVerify ==
    /\ debug_build \in BOOLEAN
    /\ program_file = ProgramFile(FALSE, <<>>)
    /\ trace_file = NoFile
    /\ proof_file \in VerifierProofFiles
    /\ vk_file = VkFile("absent", NoVk)
    /\ mainpc = "verify"
    /\ program = <<>>
    /\ vm = NewVM
    /\ hash_seed = 0
    /\ run_result = NotRun
    /\ circuit = NoCircuit
    /\ cs = NoSynth
    /\ pk = NoPk
    /\ vk \in VerifierKeys
    /\ public_inputs \in VerifierInputs
    /\ valid = FALSE
    /\ output = ""
    /\ log = <<>>
    /\ runs = 1
    /\ prev = NoPrev
    /\ tampered = "no"
    /\ twin = NoTwin
    /\ executed = 0

VerifyProofCall ==
    /\ mainpc = "verify"
    /\ valid' = verify_proof(vk, proof_file, public_inputs)
    /\ output' = IF verify_proof(vk, proof_file, public_inputs)
                 THEN "Proof is valid!" ELSE "Proof is invalid."
    /\ log' = Append(log, "verify")
    /\ mainpc' = "done"
    /\ UNCHANGED <<twin, executed, debug_build, files, program, vm, hash_seed, run_result, circuit, cs, pk,
                   vk, public_inputs, runs, prev, tampered>>

SpecVerify == InitVerify /\ [][VerifyProofCall]_vars

\* ------------------------------------------------------------------ generate_constraints on its own
\* ExecutionCircuit's fields are public: a circuit of any program between any two states
CircuitStates ==
    {ProvableState(0, s, h, 0) :
        s \in {<<>>, <<One>>, <<One, MaxU32>>}, h \in {EmptyHeap, HeapInsert(EmptyHeap, Zero, One)}}

Circuits ==
    {ExecutionCircuit(i, f, p, generate_trace_commitment(<<i, f>>, 0)) :
        i \in CircuitStates, f \in {NoState, ProvableState(0, <<One>>, EmptyHeap, 0)}, p \in Programs}

InitCircuit ==
    /\ debug_build \in BOOLEAN
    /\ program_file = ProgramFile(FALSE, <<>>)
    /\ trace_file = NoFile
    /\ proof_file = ProofFile("absent", NoProof)
    /\ vk_file = VkFile("absent", NoVk)
    /\ mainpc = "setup"
    /\ program = <<>>
    /\ vm = NewVM
    /\ hash_seed = 0
    /\ run_result = NotRun
    /\ circuit \in Circuits
    /\ cs = NoSynth
    /\ pk = NoPk
    /\ vk = NoVk
    /\ public_inputs = <<>>
    /\ valid = FALSE
    /\ output = ""
    /\ log = <<>>
    /\ runs = 1
    /\ prev = NoPrev
    /\ tampered = "no"
    /\ twin = NoTwin
    /\ executed = 0

Synthesize ==
    /\ mainpc = "setup"
    /\ cs' = generate_constraints(circuit, debug_build)
    /\ output' = generate_constraints(circuit, debug_build).outcome.msg
    /\ mainpc' = "done"
    /\ UNCHANGED <<twin, executed, debug_build, files, program, vm, hash_seed, run_result, circuit, pk, vk,
                   public_inputs, valid, log, runs, prev, tampered>>

SpecCircuit == InitCircuit /\ [][Synthesize]_vars

\* ------------------------------------------------------------------ generate_trace_commitment on its own
\* ProvableVM's fields are public: a VM holding any trace can be committed to.
\* Two VMs, each with its own hasher keys; the second holds the first one's
\* trace, or that trace with one field of one entry changed, or with an entry
\* added or removed.
CommitStates ==
    {ProvableState(0, s, h, 0) :
        s \in {<<>>, <<One>>},
        h \in {EmptyHeap, HeapInsert(EmptyHeap, Zero, One),
               HeapInsert(HeapInsert(EmptyHeap, Zero, One), One, Zero)}}

CommitTraces == UNION {[1..n -> CommitStates] : n \in 0..MaxTraceLen}

ChangeValues == {Zero, One, W(1, 0), MaxU32}
ChangeAddrs == {Zero, One, W(0, 2)}
ChangeBytes == {0, 1, 255}

HeapRemove(h, addr) == [a \in (DOMAIN h) \ {addr} |-> h[a]]

Changed(how, st) == [how |-> how, state |-> st]

\* every state that differs from st in exactly one field
StateChanges(st) ==
    {Changed("pc", [st EXCEPT !.pc = p]) : p \in {0, 1, 256} \ {st.pc}}
        \cup {Changed("flags", [st EXCEPT !.flags = f]) : f \in ChangeBytes \ {st.flags}}
        \cup {Changed("stack element", [st EXCEPT !.stack[j] = v]) :
                 j \in 1..Len(st.stack), v \in ChangeValues}
        \cup {Changed("stack length", [st EXCEPT !.stack = Append(@, v)]) : v \in ChangeValues}
        \cup (IF st.stack = <<>> THEN {}
              ELSE {Changed("stack length", [st EXCEPT !.stack = Popped(@)])})
        \cup {Changed("heap value", [st EXCEPT !.heap[a] = v]) :
                 a \in DOMAIN st.heap, v \in ChangeValues}
        \cup {Changed("heap address", [st EXCEPT !.heap = HeapInsert(HeapRemove(@, a), b, st.heap[a])]) :
                 a \in DOMAIN st.heap, b \in ChangeAddrs \ DOMAIN st.heap}
        \cup {Changed("heap entries", [st EXCEPT !.heap = HeapInsert(@, b, v)]) :
                 b \in ChangeAddrs \ DOMAIN st.heap, v \in ChangeValues}
        \cup {Changed("heap entries", [st EXCEPT !.heap = HeapRemove(@, a)]) : a \in DOMAIN st.heap}

RemoveAt(t, i) == SubSeq(t, 1, i - 1) \o SubSeq(t, i + 1, Len(t))

\* every trace that differs from t in one field of one entry, or by one entry
TraceChanges(t) ==
    UNION {{[how |-> c.how, trace |-> [t EXCEPT ![i] = c.state]] : c \in StateChanges(t[i])} :
              i \in 1..Len(t)}
        \cup {[how |-> "entry added", trace |-> Append(t, st)] : st \in CommitStates}
        \cup {[how |-> "entry removed", trace |-> RemoveAt(t, i)] : i \in 1..Len(t)}

InitCommit ==
    /\ debug_build = FALSE
    /\ program_file = ProgramFile(FALSE, <<>>)
    /\ trace_file = NoFile
    /\ proof_file = ProofFile("absent", NoProof)
    /\ vk_file = VkFile("absent", NoVk)
    /\ mainpc = "commit"
    /\ program = <<>>
    /\ \E t \in CommitTraces, s \in HashSeeds :
          /\ vm = [NewVM EXCEPT !.trace = t]
          /\ twin = [NoTwin EXCEPT !.trace = t, !.seed = s]
    /\ hash_seed \in HashSeeds
    /\ run_result = NotRun
    /\ circuit = NoCircuit
    /\ cs = NoSynth
    /\ pk = NoPk
    /\ vk = NoVk
    /\ public_inputs = <<>>
    /\ valid = FALSE
    /\ output = ""
    /\ log = <<>>
    /\ runs = 1
    /\ prev = NoPrev
    /\ tampered = "no"
    /\ executed = 0

\* one change is made to the second VM's trace
ChangeTwin ==
    /\ mainpc = "commit"
    /\ twin.changed = ""
    /\ \E c \in TraceChanges(twin.trace) :
          /\ c.trace # twin.trace
          /\ twin' = [twin EXCEPT !.trace = c.trace, !.changed = c.how]
    /\ UNCHANGED <<debug_build, files, mainpc, program, vm, hash_seed, run_result, circuit, cs,
                   pk, vk, public_inputs, valid, output, log, runs, prev, tampered, executed>>

\* generate_trace_commitment on both VMs
Commit ==
    /\ mainpc = "commit"
    /\ trace_file' = HexLine(generate_trace_commitment(vm.trace, hash_seed))
    /\ twin' = [twin EXCEPT !.committed = TRUE,
                            !.digest = generate_trace_commitment(twin.trace, twin.seed)]
    /\ log' = log \o <<"generate_trace_commitment", "generate_trace_commitment">>
    /\ mainpc' = "done"
    /\ UNCHANGED <<debug_build, program_file, proof_file, vk_file, program, vm, hash_seed,
                   run_result, circuit, cs, pk, vk, public_inputs, valid, output, runs, prev,
                   tampered, executed>>

NextCommit == ChangeTwin \/ Commit

SpecCommit == InitCommit /\ [][NextCommit]_vars

\* ================================================================== claims
\* The verdict of the backend on what verify_proof was given
BackendAccepts ==
    /\ proof_file.state = "proof"
    /\ Groth16Verify(vk, public_inputs, proof_file.proof).res.kind = "Ok"
    /\ Groth16Verify(vk, public_inputs, proof_file.proof).accepted

\* C1: verify_proof returns false whenever the proof is checked against public
\* inputs other than those it was made for, that is whenever the backend does not
\* accept (verifying key, public inputs, proof), also when the backend completes
\* and reports rejection.  (The claim as stated; the code returns true on Ok(false).)
C1_RejectionReturnsFalse ==
    (mainpc = "done"
        /\ (~BackendAccepts \/ (proof_file.state = "proof" /\ proof_file.proof.inputs # public_inputs)))
        => valid = FALSE

\* C2: a proof artifact that is missing, does not deserialize or had one bit
\* flipped makes verify_proof return false without aborting, and the pipeline
\* prints "Proof is invalid.".  (The claim as stated; a flipped bit that leaves a
\* deserializable proof is reported valid.)
C2_TamperedProofIsInvalid ==
    (mainpc = "done" /\ tampered # "no") => (valid = FALSE /\ output = "Proof is invalid.")

\* C3: completeness: once run_program has returned Ok on a fresh VM, no later
\* step of the pipeline (circuit, setup, generate_proof, load_vk, verify_proof)
\* aborts, and the pipeline ends with verify_proof true and "Proof is valid!"
\* (unless somebody touches program.proof in between).
C3_Completeness ==
    (run_result.kind = "Ok" /\ tampered = "no")
        => /\ mainpc \in {"circuit", "setup", "prove", "load_vk", "verify", "done"}
           /\ mainpc \in {"load_vk", "verify", "done"} => proof_file.state = "proof"
           /\ mainpc = "done" => (valid = TRUE /\ output = "Proof is valid!")

C3_Witness ==
    /\ mainpc = "done"
    /\ tampered = "no"
    /\ program = ScenarioA
    /\ valid = TRUE
    /\ output = "Proof is valid!"

\* C4: determinism of execution: a second, independent run of run_program on the
\* same program from a fresh VM ends as the first did: the traces have the same
\* length and equal entries (pc, stack, heap content, flags) and the outcomes are
\* the same (both Ok, or both the same error; an overflowing ADD ends both runs
\* of a build alike).
C4_Determinism ==
    (prev.exists /\ mainpc \notin {"load", "run"})
        => /\ Len(vm.trace) = Len(prev.trace)
           /\ \A i \in 1..Len(vm.trace) :
                 /\ vm.trace[i].pc = prev.trace[i].pc
                 /\ vm.trace[i].stack = prev.trace[i].stack
                 /\ vm.trace[i].heap = prev.trace[i].heap
                 /\ vm.trace[i].flags = prev.trace[i].flags
           /\ run_result = prev.run_result

C4_Witness ==
    /\ prev.exists
    /\ mainpc = "circuit"
    /\ Len(vm.trace) = 6
    /\ Cardinality(DOMAIN vm.trace[6].heap) = 2
    /\ vm.trace = prev.trace

\* C5: equal traces yield equal digests, whatever the order in which the heap is
\* iterated, across independent runs.  (The claim as stated; the code serializes
\* the heap in the map's iteration order.)
C5_EqualTracesEqualDigests ==
    (prev.exists /\ mainpc = "circuit" /\ prev.run_result.kind = "Ok" /\ vm.trace = prev.trace)
        => trace_file = prev.trace_file

\* C6: treating the hash as collision-free, the bytes hashed determine the trace:
\* a change of one field of one entry (pc, a stack element, the stack length, a
\* heap address, a heap value, the set of heap entries, flags), an added or a
\* removed entry changes the commitment, under any two iteration orders; and no
\* other trace of the universe has the commitment of the first VM's trace.
C6_Sensitivity ==
    twin.committed
        => /\ twin.trace # vm.trace => twin.digest # trace_file.content
           /\ twin.changed = ""
                 => \A t \in CommitTraces, s \in HashSeeds :
                       t # vm.trace => generate_trace_commitment(t, s) # trace_file.content

C6_Witness ==
    /\ twin.committed
    /\ twin.changed = "heap value"
    /\ Len(vm.trace) = 2
    /\ twin.seed # hash_seed
    /\ twin.digest # trace_file.content

\* C7 as stated: len(trace) == executed_steps + 1 with a terminating HALT not
\* counted; scenario A gives 4 entries and scenario B gives 3.
C7_LengthWithoutHalt ==
    run_result.kind = "Ok"
        => /\ Len(vm.trace) = (IF vm.pc < Len(program) THEN executed - 1 ELSE executed) + 1
           /\ program = ScenarioA => Len(vm.trace) = 4
           /\ program = ScenarioB => Len(vm.trace) = 3

\* C7 amended: len(trace) == executed_steps + 1 where executed_steps counts every
\* instruction executed, a terminating HALT included: one snapshot before each
\* and one after the loop; scenario A gives 5 entries and scenario B gives 4.
C7_TraceLength ==
    run_result.kind = "Ok"
        => /\ Len(vm.trace) = executed + 1
           /\ executed = (IF vm.pc < Len(program) THEN vm.pc + 1 ELSE vm.pc)
           /\ program = ScenarioA => Len(vm.trace) = 5
           /\ program = ScenarioB => Len(vm.trace) = 4

C7_Witness ==
    /\ mainpc = "circuit"
    /\ program = ScenarioA
    /\ executed = 4
    /\ Len(vm.trace) = 5

\* C8: run_program returns Ok or Err for every program, never aborts, also on
\* an ADD whose sum exceeds 2^32 - 1.  (The claim as stated; with overflow checks
\* the unchecked addition panics.)
C8_RunNeverAborts == run_result.kind \in {"none", "Ok", "Err"}

C10_SynthesisNeverAborts == mainpc = "done" => cs.outcome.kind # "Panic"

\* the process has taken this cryptographic step
Logged(step) == \E k \in 1..Len(log) : log[k] = step

\* C11: every synthesis allocates exactly one public input variable, whose value
\* is the field encoding of trace_commitment; the constraint equating it with
\* that field element is the first constraint and the only one of its kind, the
\* per-opcode constraints come after it; every other variable is a witness; the
\* vector given to verify_proof has exactly one element.
C11_OnePublicInput ==
    /\ Logged("setup")
          => LET f == convert_commitment_to_field(circuit.trace_commitment)
             IN  /\ cs.inputs = <<f>>
                 /\ Len(cs.constraints) >= 1
                 /\ cs.constraints[1] = Constraint("public input", f, f)
                 /\ \A k \in 2..Len(cs.constraints) : cs.constraints[k].tag # "public input"
    /\ mainpc = "done" => Len(public_inputs) = 1

C11_Witness ==
    /\ mainpc = "done"
    /\ program = ScenarioA
    /\ Len(cs.constraints) = 6
    /\ cs.witnesses = 7
    /\ Len(cs.inputs) = 1
    /\ Len(public_inputs) = 1

\* C12: within one process the same commitment is used everywhere: the one
\* run_program wrote, the trace_commitment of the circuit given to setup, the one
\* generate_proof recomputes for the proving circuit (and writes, and binds the
\* proof to), and the one the public input is derived from are all the
\* commitment of the VM's trace as it stands after run_program returned.
C12_OneCommitment ==
    (run_result.kind = "Ok" /\ mainpc \notin {"load", "run"})
        => LET c == generate_trace_commitment(vm.trace, hash_seed)
           IN  /\ trace_file = HexLine(c)
               /\ mainpc # "circuit" => circuit.trace_commitment = c
               /\ Logged("setup") => cs.inputs = <<convert_commitment_to_field(c)>>
               /\ (Logged("prove") /\ mainpc # "aborted" /\ tampered = "no")
                     => proof_file.proof.inputs = <<convert_commitment_to_field(c)>>
               /\ mainpc = "done" => public_inputs = <<convert_commitment_to_field(c)>>

C12_Witness ==
    /\ mainpc = "done"
    /\ tampered = "no"
    /\ Len(vm.trace) = 6
    /\ Cardinality(DOMAIN vm.trace[6].heap) = 2
    /\ public_inputs = proof_file.proof.inputs
    /\ circuit.trace_commitment = trace_file.content

\* C13 as stated: for every pair of operands on which the interpreter executes
\* ADD or SUB, the values the circuit assigns satisfy a + b = r, b - a = r in the
\* field, and an r off by one does not.  (The code's unchecked ADD wraps in a
\* build without overflow checks, and the wrapped r is not a + b in the field.)
C13_ArithmeticSound ==
    (run_result.kind = "Ok" /\ Logged("setup"))
        => \A k \in 1..Len(cs.constraints) :
              cs.constraints[k].tag \in {"ADD", "SUB"}
                  => /\ cs.constraints[k].lhs = cs.constraints[k].rhs
                     /\ cs.constraints[k].lhs # FrFromU32(U32AddWrap(cs.constraints[k].rhs.w, One))
                     /\ cs.constraints[k].lhs # FrFromU32(U32SubWrap(cs.constraints[k].rhs.w, One))

\* a VM in the state of a snapshot
VMAt(st) == [NewVM EXCEPT !.pc = st.pc, !.stack = st.stack, !.heap = st.heap, !.flags = st.flags]

\* C14: in the trace of a successful run_program on a fresh VM every entry after
\* the first is what one transition, that of program[previous.pc], makes of the
\* entry before it, the last entry included (HALT changes nothing).
C14_OneTransitionPerEntry ==
    run_result.kind = "Ok"
        => /\ vm.trace # <<>>
           /\ vm.trace[1] = NoState
           /\ \A i \in 1..(Len(vm.trace) - 1) :
                 /\ vm.trace[i].pc < Len(program)
                 /\ LET e == execute_instruction(VMAt(vm.trace[i]), program[vm.trace[i].pc + 1],
                                                 debug_build)
                    IN  /\ e.res.kind = "Ok"
                        /\ vm.trace[i + 1] = capture_state(e.vm)
                        /\ e.cont = FALSE => i + 1 = Len(vm.trace)

C14_Witness ==
    /\ run_result.kind = "Ok"
    /\ program = ScenarioA
    /\ Len(vm.trace) = 5
    /\ vm.trace[4].stack = <<W(0, 8)>>
    /\ vm.trace[5] = vm.trace[4]

\* the last element of a non-empty sequence
Last(q) == q[Len(q)]

\* C15: lockstep of interpreter and circuit: after a successful run_program on a
\* fresh VM every synthesis of the circuit (setup, prove) meets no precondition
\* violation, stops where the run stopped (at the first HALT or at the end of the
\* program), is the synthesis of the instructions executed and of nothing after
\* them, and ends with the stack and heap of the last trace entry.
C15_Lockstep ==
    (run_result.kind = "Ok" /\ Logged("setup"))
        => /\ cs.outcome.kind = "Ok"
           /\ cs.pc = vm.pc
           /\ cs.halted = (vm.pc < Len(program))
           /\ cs.halted => program[cs.pc + 1].opcode = "HALT"
           /\ cs.stack = Last(vm.trace).stack
           /\ cs.heap = Last(vm.trace).heap
           /\ cs = generate_constraints(
                       ExecutionCircuit(vm.trace[1], Last(vm.trace), SubSeq(program, 1, executed),
                                        circuit.trace_commitment), debug_build)

C15_Witness ==
    /\ run_result.kind = "Ok"
    /\ Logged("prove")
    /\ Len(program) = 5
    /\ program[4].opcode = "HALT"
    /\ cs.halted
    /\ cs.pc = 3
    /\ cs.stack = <<W(LimbMod - 1, LimbMod - 2)>>

\* C16: pc moves by exactly 1 on every instruction that succeeds and is not HALT,
\* stays where it is on HALT and on every instruction that fails, and changes
\* in no other way: consecutive snapshots of a fresh VM differ in pc by 1, but
\* for the final snapshot after HALT, whose pc is that of the one before it.
C16_PcAdvancesByOne ==
    /\ mainpc # "load" =>
          /\ vm.trace # <<>> => vm.trace[1].pc = 0
          /\ \A i \in 1..(Len(vm.trace) - 1) :
                /\ vm.trace[i].pc < Len(program)
                /\ vm.trace[i + 1].pc =
                      (IF program[vm.trace[i].pc + 1].opcode = "HALT"
                       THEN vm.trace[i].pc ELSE vm.trace[i].pc + 1)
                /\ program[vm.trace[i].pc + 1].opcode = "HALT"
                      => (i + 1 = Len(vm.trace) /\ run_result.kind = "Ok")
          /\ mainpc = "run" => vm.pc = Len(vm.trace)
    /\ (mainpc = "aborted" /\ run_result.kind \in {"Err", "Panic"})
          => (vm.trace # <<>> /\ vm.pc = Last(vm.trace).pc)

C16_Witness ==
    /\ run_result.kind = "Ok"
    /\ program = ScenarioA
    /\ Len(vm.trace) = 5
    /\ vm.trace[4].pc = 3
    /\ vm.trace[5].pc = 3
    /\ vm.pc = 3

ReplayOf(c, checks) ==
    LET f == convert_commitment_to_field(c.trace_commitment)
    IN  Replay(c.program, 1,
               Synth(c.initial_state.stack, c.initial_state.heap, c.initial_state.pc,
                     <<Constraint("public input", f, f)>>, <<f>>, 0, Ok, FALSE), checks)

\* C18 as stated: for every ExecutionCircuit whose replay ends with a non-empty
\* simulated stack, synthesis adds one constraint equating the simulated stack's
\* element at index 0 with final_state.stack[0], unsatisfied when they differ;
\* with an empty simulated stack it adds none.  (With a non-empty simulated stack
\* and an empty final_state.stack the code panics on the index.)
C18_FinalCheck ==
    (mainpc = "done" /\ ReplayOf(circuit, debug_build).outcome.kind = "Ok")
        => LET r == ReplayOf(circuit, debug_build)
           IN  IF r.stack = <<>> THEN cs = r
               ELSE /\ cs.outcome.kind = "Ok"
                    /\ Len(cs.constraints) = Len(r.constraints) + 1
                    /\ Last(cs.constraints) =
                          Constraint("final", FrFromU32(r.stack[1]),
                                     FrFromU32(circuit.final_state.stack[1]))
                    /\ r.stack[1] # circuit.final_state.stack[1] => ~is_satisfied(cs)

\* C19 as stated: in every process, also one that finds a program.vk left by an
\* earlier one, the verifying key load_vk returns is the one of the proving key
\* of this process's setup.  (load_vk returns the key in the file when there is one.)
C19_VkOfThisSetup ==
    mainpc \in {"verify", "done"} => vk = pk.vk

\* C20 as stated: when execute_instruction returns an error, pc, stack, heap and
\* flags are those of the snapshot taken just before the instruction, and no
\* final snapshot is appended.  (ADD and SUB pop before they fail.)
C20_ErrorAtomicity ==
    (mainpc = "aborted" /\ run_result.kind = "Err")
        => /\ vm.trace # <<>>
           /\ capture_state(vm) = Last(vm.trace)
           /\ Len(vm.trace) = executed + 1

\* the effect on heap and flags of the instruction executed at every snapshot
FrameOfTrace ==
    /\ vm.flags = 0
    /\ \A i \in 1..Len(vm.trace) : vm.trace[i].flags = 0
    /\ \A i \in 1..Len(vm.trace) :
          LET ins == program[vm.trace[i].pc + 1]
              h == vm.trace[i].heap
              \* the state the instruction left: the next snapshot, or the VM itself
              g == IF i < Len(vm.trace) THEN vm.trace[i + 1].heap ELSE vm.heap
          IN  vm.trace[i].pc < Len(program) =>
                  IF ins.opcode = "STORE" /\ g # h
                  THEN /\ ins.operand.some
                       /\ vm.trace[i].stack # <<>>
                       /\ DOMAIN g = DOMAIN h \cup {ins.operand.val}
                       /\ g[ins.operand.val] = Top(vm.trace[i].stack)
                       /\ \A a \in DOMAIN h \ {ins.operand.val} : g[a] = h[a]
                  ELSE /\ g = h
                       /\ (ins.opcode = "STORE" /\ i < Len(vm.trace))
                             => (ins.operand.some /\ vm.trace[i].stack # <<>>
                                   /\ ins.operand.val \in DOMAIN h
                                   /\ h[ins.operand.val] = Top(vm.trace[i].stack))

\* a step of the VM keeps the snapshots it has taken
TraceKept ==
    mainpc' # "load"
        => /\ Len(vm'.trace) >= Len(vm.trace)
           /\ \A i \in 1..Len(vm.trace) : vm'.trace[i] = vm.trace[i]

\* C21: frame of the opcodes: only STORE changes the heap, and STORE addr changes
\* only the entry at addr, to the popped value, one value per address; LOAD, PUSH,
\* POP, ADD, SUB, HALT and every failing instruction leave the heap as it was; no
\* instruction changes flags, 0 in every entry; no step changes a trace entry
\* that was already captured.
C21_Frame == [](mainpc # "load" => FrameOfTrace) /\ [][TraceKept]_vars

C21_Witness ==
    /\ run_result.kind = "Ok"
    /\ Len(vm.trace) = 6
    /\ program[3].opcode = "STORE"
    /\ program[4].opcode = "STORE"
    /\ vm.trace[3].heap = EmptyHeap
    /\ Cardinality(DOMAIN vm.trace[4].heap) = 1
    /\ Cardinality(DOMAIN vm.trace[5].heap) = 2
    /\ vm.trace[6].heap = vm.trace[5].heap

\* the snapshots taken before an instruction: all but the one after the loop
Attempts == IF run_result.kind = "Ok" THEN Len(vm.trace) - 1 ELSE Len(vm.trace)

\* C22: termination: for every program the loop of run_program on a fresh VM
\* stops (HALT, an error, or pc at the program's length): it attempts at most
\* len(program) instructions, none of them twice, and run_program eventually
\* returns or aborts.
C22_Termination ==
    /\ [](/\ Attempts <= Len(program)
          /\ executed <= Attempts
          /\ \A i, j \in 1..Attempts : i < j => vm.trace[i].pc < vm.trace[j].pc)
    /\ (mainpc = "run") ~> (mainpc \in {"circuit", "aborted"})

C22_Witness ==
    /\ mainpc = "circuit"
    /\ program = ScenarioA
    /\ executed = Len(program)
    /\ Attempts = 4

====
